---- MODULE Spec2Model ----
(***************************************************************************)
(* BB84 quantum key distribution simulator: runBB84Simulation of the       *)
(* qkdService, modelled stage by stage.  One run of the function is one    *)
(* behaviour; pc names the stage the run is about to execute, or the exit  *)
(* it has taken.                                                           *)
(***************************************************************************)
EXTENDS Integers, Sequences, FiniteSets, TLC

----------------------------------------------------------------------------
\* Bounds of the model.

\* largest numQubits of a run that starts at PREPARE
MaxQubits == 2
\* largest errorCorrectionBlockSize
MaxBlock == 2
\* largest sifted key of a run taken up after the sifting loop
MaxSifted == 25
\* how far below zero the reconciliation index is followed when the block
\* size is negative and the loop never ends
MaxSpin == 2

----------------------------------------------------------------------------
\* types.ts

ZERO == 0
ONE == 1
Bit == {ZERO, ONE}

RECTILINEAR == "Rectilinear (+)"
DIAGONAL == "Diagonal (x)"
Basis == {RECTILINEAR, DIAGONAL}

\* constants.ts: QBER_THRESHOLD = 0.11, kept as the fraction 11 / 100
QBER_THRESHOLD_NUM == 11
QBER_THRESHOLD_DEN == 100

\* number of hex characters of a SHA-256 digest (32 bytes, two characters each)
SHA256_HEX_LENGTH == 64

----------------------------------------------------------------------------
\* Arithmetic helpers.

Min(a, b) == IF a < b THEN a ELSE b
Max(a, b) == IF a > b THEN a ELSE b
Abs(a) == IF a < 0 THEN -a ELSE a

RECURSIVE Pow2(_)
Pow2(e) == IF e <= 0 THEN 1 ELSE 2 * Pow2(e - 1)

RECURSIVE Pow2Mod100(_)
Pow2Mod100(e) == IF e <= 0 THEN 1 ELSE (2 * Pow2Mod100(e - 1)) % 100

\* floor(log2(k)) for k >= 1
RECURSIVE Log2Floor(_)
Log2Floor(k) == IF k <= 1 THEN 0 ELSE 1 + Log2Floor(k \div 2)

IsPow2(k) == k = Pow2(Log2Floor(k))

(***************************************************************************)
(* IEEE-754 double arithmetic of  len * (pct / 100)  for integers len > 0  *)
(* and pct # 0, with a = |pct|.                                            *)
(*                                                                         *)
(* BinadeOf(a) is the t with 2^-t <= a/100 < 2^(1-t).  The quotient        *)
(* a / 100 is rounded to the 53-bit significand m = round(a * 2^s / 100),  *)
(* s = 52 + t; DivDelta(a) is  100 * m - a * 2^s, the signed rounding      *)
(* error of the division in units of 2^-s / 100 (0 when a/100 is dyadic).  *)
(***************************************************************************)
RECURSIVE BinadeUp(_, _)
BinadeUp(a, t) == IF a * Pow2(t) >= 100 THEN t ELSE BinadeUp(a, t + 1)

RECURSIVE BinadeDown(_, _)
BinadeDown(a, u) == IF 100 * Pow2(u + 1) > a THEN u ELSE BinadeDown(a, u + 1)

BinadeOf(a) == IF a < 100 THEN BinadeUp(a, 1) ELSE -BinadeDown(a, 0)

DivDelta(a) ==
    IF a % 25 = 0 THEN 0
    ELSE LET r == ((a % 100) * Pow2Mod100(52 + BinadeOf(a))) % 100
         IN  IF r < 50 THEN -r ELSE 100 - r

(***************************************************************************)
(* MulDir(len, a), for len * a a multiple of 100: the double product       *)
(* len * fl(a/100) is the real  k + len * DivDelta(a) / (100 * 2^s),       *)
(* k = len * a / 100, rounded to nearest (ties to even).  The result is    *)
(* 1, 0 or -1 as the rounded product is above, equal to or below k.        *)
(***************************************************************************)
MulDir(len, a) ==
    LET k == (len * a) \div 100
        d == DivDelta(a)
        unit == 100 * Pow2(BinadeOf(a) + Log2Floor(k))
    IN  IF d > 0 /\ 2 * len * d > unit THEN 1
        ELSE IF d < 0 /\ (IF IsPow2(k) THEN 4 ELSE 2) * len * (-d) > unit THEN -1
        ELSE 0

\* Math.ceil(siftedKeyLength * (qberSampleSize / 100)) in doubles
CeilSampleProduct(len, pct) ==
    IF len = 0 \/ pct = 0 THEN 0
    ELSE LET a == Abs(pct)
             q == (len * a) \div 100
             exact == (len * a) % 100 = 0
         IN  IF pct > 0
             THEN IF exact THEN (IF MulDir(len, a) = 1 THEN q + 1 ELSE q)
                  ELSE q + 1
             ELSE IF exact THEN (IF MulDir(len, a) = -1 THEN 1 - q ELSE -q)
                  ELSE -q

\* the sample count the specification states: ceil(len * pct / 100) exactly
ExactCeilPercent(len, pct) == -((-(len * pct)) \div 100)

----------------------------------------------------------------------------
\* Array helpers with JavaScript semantics (0-based indices on 1-based
\* sequences).

\* relative index of Array.prototype.slice
SliceIndex(x, len) == IF x < 0 THEN Max(len + x, 0) ELSE Min(x, len)

\* arr.slice(start, end)
JsSlice(arr, start, end) ==
    LET a == SliceIndex(start, Len(arr))
        b == SliceIndex(end, Len(arr))
    IN  IF a < b THEN SubSeq(arr, a + 1, b) ELSE <<>>

\* arr.slice(start)
JsSliceFrom(arr, start) == JsSlice(arr, start, Len(arr))

\* Array.from({ length: n }, ...) has ToLength(n) elements
ArrayLength(n) == Max(n, 0)

\* XorParity with | for ^
RECURSIVE XorParity_Or(_)
XorParity_Or(bits) ==
    IF Len(bits) = 0 THEN 0 ELSE Max(Head(bits), XorParity_Or(Tail(bits)))

\* bits.reduce((acc, bit) => acc ^ bit, 0)
RECURSIVE XorParity(_)
XorParity(bits) ==
    IF Len(bits) = 0 THEN 0 ELSE (Head(bits) + XorParity(Tail(bits))) % 2

\* CountMismatches with === for !==
RECURSIVE CountMismatches_Equal(_, _, _)
CountMismatches_Equal(a, b, n) ==
    IF n <= 0 THEN 0
    ELSE CountMismatches_Equal(a, b, n - 1)
         + (IF n <= Len(a) /\ n <= Len(b) /\ a[n] = b[n] THEN 1 ELSE 0)

\* number of i < n with a[i] !== b[i]; an index past the end reads undefined
\* on both sides and is no mismatch
RECURSIVE CountMismatches(_, _, _)
CountMismatches(a, b, n) ==
    IF n <= 0 THEN 0
    ELSE CountMismatches(a, b, n - 1)
         + (IF n <= Len(a) /\ n <= Len(b) /\ a[n] # b[n] THEN 1 ELSE 0)

----------------------------------------------------------------------------
\* qkdService helpers.

\* MeasureBit with the test inverted
MeasureBit_Inverted(txBit, txBasis, basis, rnd) ==
    IF txBasis # basis THEN txBit ELSE rnd

\* one measurement: the transmitted bit when the bases agree, a fresh random
\* bit (rnd) otherwise
MeasureBit(txBit, txBasis, basis, rnd) ==
    IF txBasis = basis THEN txBit ELSE rnd

\* the sifting loop: bits[k] for the k, in order, where basesA[k] = basesB[k]
RECURSIVE SiftKey(_, _, _, _)
SiftKey(bits, basesA, basesB, n) ==
    IF n <= 0 THEN <<>>
    ELSE LET prev == SiftKey(bits, basesA, basesB, n - 1)
         IN  IF basesA[n] = basesB[n] THEN Append(prev, bits[n]) ELSE prev

\* qber = qberSampleCount > 0 ? qberErrors / qberSampleCount : 0, as a fraction
QberOf(errors, count) ==
    IF count > 0 THEN [num |-> errors, den |-> count] ELSE [num |-> 0, den |-> 1]

\* AboveThreshold with the threshold read as a percentage (11, not 0.11)
AboveThreshold_Percent(q) == q.num > QBER_THRESHOLD_NUM * q.den

\* qber > QBER_THRESHOLD
AboveThreshold(q) == q.num * QBER_THRESHOLD_DEN > QBER_THRESHOLD_NUM * q.den

\* qber > QBER_THRESHOLD / 2
AboveHalfThreshold(q) ==
    q.num * QBER_THRESHOLD_DEN * 2 > QBER_THRESHOLD_NUM * q.den

\* AboveZero with >= for >
AboveZero_OrEqual(q) == q.num >= 0

\* qber > 0
AboveZero(q) == q.num > 0

\* index (0-based) of the first j < n with a[j] !== b[j], or -1
RECURSIVE FirstDiffFrom(_, _, _, _)
FirstDiffFrom(a, b, j, n) ==
    IF j >= n THEN -1
    ELSE IF a[j + 1] # b[j + 1] THEN j
    ELSE FirstDiffFrom(a, b, j + 1, n)

\* FirstDiff that scans the block from its right end
FirstDiff_Last(a, b, n) ==
    LET differing == {j \in 0..(n - 1) : a[j + 1] # b[j + 1]}
    IN  IF differing = {} THEN -1
        ELSE CHOOSE j \in differing : \A g \in differing : g <= j

FirstDiff(a, b, n) == FirstDiffFrom(a, b, 0, n)

\* keyForErrorCorrectionAlice.every((bit, index) => bit === sharedKeyAfterEC[index])
KeysMatch(a, b) ==
    \A k \in 1..Len(a) : k <= Len(b) /\ a[k] = b[k]

\* A string of hex characters is kept as the digest it is a prefix of and its
\* length; the empty string is the same whatever it was cut from.
EmptyString == [digestOf |-> <<>>, hexLen |-> 0]

\* sha256(message): the 64 hex characters of the digest of the message
Sha256Hex(message) == [digestOf |-> message, hexLen |-> SHA256_HEX_LENGTH]

\* Substring0 that takes the requested length to be available
Substring0_Unclamped(str, end) ==
    LET n == Max(end, 0)
    IN  IF n = 0 THEN EmptyString ELSE [digestOf |-> str.digestOf, hexLen |-> n]

\* str.substring(0, end)
Substring0(str, end) ==
    LET n == Min(Max(end, 0), str.hexLen)
    IN  IF n = 0 THEN EmptyString ELSE [digestOf |-> str.digestOf, hexLen |-> n]

\* Math.ceil(privacyAmplificationLength / 4)
DesiredHexLength(len) == -((-len) \div 4)

----------------------------------------------------------------------------
\* State of one call of runBB84Simulation.

VARIABLES
    params,                      \* the SimulationParameters record
    pc,                          \* stage about to run, or the exit taken
    aliceBits, aliceBases,
    transmittedBits, transmittedBases,
    bobBases, bobMeasuredBits,
    siftedAliceKey, siftedBobKey,
    qberResult,                  \* <<>> while undefined, else <<QBERResult>>
    eveDetected,
    keyForErrorCorrectionAlice, keyForErrorCorrectionBob,
    sharedKeyAfterEC,
    errorsCorrectedCount,
    i,                           \* index of the reconciliation loop
    log,
    result,                      \* <<>> until the call returns, else <<SimulationResult>>
    hashCalls                    \* number of calls of sha256

vars == <<params, pc, aliceBits, aliceBases, transmittedBits, transmittedBases,
          bobBases, bobMeasuredBits, siftedAliceKey, siftedBobKey, qberResult,
          eveDetected, keyForErrorCorrectionAlice, keyForErrorCorrectionBob,
          sharedKeyAfterEC, errorsCorrectedCount, i, log, result, hashCalls>>

prepVars == <<aliceBits, aliceBases, transmittedBits, transmittedBases>>
bobVars == <<bobBases, bobMeasuredBits>>
siftVars == <<siftedAliceKey, siftedBobKey>>
ecVars == <<keyForErrorCorrectionAlice, keyForErrorCorrectionBob,
            sharedKeyAfterEC, errorsCorrectedCount, i>>

\* parameter values of the runs explored from PREPARE
SamplePercents == {0, 50, 100}
PrivacyLengths == {6}

WellFormedParams ==
    [numQubits : 1..MaxQubits,
     qberSampleSize : SamplePercents,
     errorCorrectionBlockSize : 1..MaxBlock,
     privacyAmplificationLength : PrivacyLengths,
     enableEve : BOOLEAN,
     enableSecureMode : BOOLEAN]

\* the same, with values outside the configuration surface as well
AnyParams ==
    [numQubits : (-1)..MaxQubits,
     qberSampleSize : {-50, 50, 150},
     errorCorrectionBlockSize : (-1)..MaxBlock,
     privacyAmplificationLength : {-4, 0, 6},
     enableEve : BOOLEAN,
     enableSecureMode : BOOLEAN]

WellFormed(p) ==
    /\ p.numQubits > 0
    /\ p.qberSampleSize >= 0 /\ p.qberSampleSize <= 100
    /\ p.errorCorrectionBlockSize > 0
    /\ p.privacyAmplificationLength > 0

\* the locals of the function before it has run
EntryState(p) ==
    /\ params = p
    /\ pc = "PREPARE"
    /\ aliceBits = <<>> /\ aliceBases = <<>>
    /\ transmittedBits = <<>> /\ transmittedBases = <<>>
    /\ bobBases = <<>> /\ bobMeasuredBits = <<>>
    /\ siftedAliceKey = <<>> /\ siftedBobKey = <<>>
    /\ qberResult = <<>>
    /\ eveDetected = FALSE
    /\ keyForErrorCorrectionAlice = <<>> /\ keyForErrorCorrectionBob = <<>>
    /\ sharedKeyAfterEC = <<>>
    /\ errorsCorrectedCount = 0
    /\ i = 0
    /\ log = <<>>
    /\ result = <<>>
    /\ hashCalls = 0

Init == \E p \in WellFormedParams : EntryState(p)

InitAny == \E p \in AnyParams : EntryState(p)

\* the SimulationResult object of a return statement
MakeResult(sifted, qr, detected, corrected, keyAlice, keyBob) ==
    [initialQubits |-> params.numQubits,
     siftedKeyLength |-> sifted,
     qberResult |-> qr,
     eveDetected |-> detected,
     errorsCorrected |-> corrected,
     finalKeyAlice |-> keyAlice,
     finalKeyBob |-> keyBob]

----------------------------------------------------------------------------
\* Stages.

\* lines 90-100: the log header and Alice's random bits and bases
Prepare ==
    /\ pc = "PREPARE"
    /\ LET n == ArrayLength(params.numQubits) IN
       \E bits \in [1..n -> Bit], bases \in [1..n -> Basis] :
          /\ aliceBits' = bits
          /\ aliceBases' = bases
          /\ transmittedBits' = bits
          /\ transmittedBases' = bases
    /\ log' = log \o <<"Starting BB84 Simulation...", "Parameters:",
                       "Alice prepared qubits">>
    /\ pc' = IF params.enableEve THEN "EVE" ELSE "MEASURE"
    /\ UNCHANGED <<params, bobVars, siftVars, qberResult, eveDetected, ecVars,
                   result, hashCalls>>

\* EveIntercept that re-sends what Eve measured in Alice's bases
EveIntercept_ResendInAliceBases ==
    /\ pc = "EVE"
    /\ LET n == ArrayLength(params.numQubits) IN
       \E eveBases \in [1..n -> Basis], rnd \in [1..n -> Bit] :
          /\ transmittedBits' =
                [k \in 1..n |->
                    MeasureBit(aliceBits[k], aliceBases[k], eveBases[k], rnd[k])]
          /\ transmittedBases' = aliceBases
    /\ log' = log \o <<"Eve is enabled", "Eve intercepted">>
    /\ pc' = "MEASURE"
    /\ UNCHANGED <<params, aliceBits, aliceBases, bobVars, siftVars, qberResult,
                   eveDetected, ecVars, result, hashCalls>>

\* lines 103-125: Eve measures every qubit in a basis of her own and re-sends
EveIntercept ==
    /\ pc = "EVE"
    /\ LET n == ArrayLength(params.numQubits) IN
       \E eveBases \in [1..n -> Basis], rnd \in [1..n -> Bit] :
          /\ transmittedBits' =
                [k \in 1..n |->
                    MeasureBit(aliceBits[k], aliceBases[k], eveBases[k], rnd[k])]
          /\ transmittedBases' = eveBases
    /\ log' = log \o <<"Eve is enabled", "Eve intercepted">>
    /\ pc' = "MEASURE"
    /\ UNCHANGED <<params, aliceBits, aliceBases, bobVars, siftVars, qberResult,
                   eveDetected, ecVars, result, hashCalls>>

\* lines 128-140: Bob measures what was transmitted in bases of his own
BobMeasure ==
    /\ pc = "MEASURE"
    /\ LET n == ArrayLength(params.numQubits) IN
       \E bases \in [1..n -> Basis], rnd \in [1..n -> Bit] :
          /\ bobBases' = bases
          /\ bobMeasuredBits' =
                [k \in 1..n |->
                    MeasureBit(transmittedBits[k], transmittedBases[k],
                               bases[k], rnd[k])]
    /\ log' = Append(log, "Bob measured qubits")
    /\ pc' = "SIFT"
    /\ UNCHANGED <<params, prepVars, siftVars, qberResult, eveDetected, ecVars,
                   result, hashCalls>>

\* Sift comparing Bob's bases with the bases of what was transmitted (Eve's,
\* when she is enabled) instead of Alice's
Sift_TransmittedBases ==
    /\ pc = "SIFT"
    /\ LET n == ArrayLength(params.numQubits)
           keyA == SiftKey(aliceBits, transmittedBases, bobBases, n)
           keyB == SiftKey(bobMeasuredBits, transmittedBases, bobBases, n)
       IN  /\ siftedAliceKey' = keyA
           /\ siftedBobKey' = keyB
           /\ IF Len(keyA) = 0
              THEN /\ log' = log \o <<"Basis Sifting completed", "No matching bases">>
                   /\ result' = <<MakeResult(0, <<>>, FALSE, 0, EmptyString,
                                             EmptyString)>>
                   /\ pc' = "EMPTY_SIFT"
              ELSE /\ log' = Append(log, "Basis Sifting completed")
                   /\ result' = result
                   /\ pc' = "ESTIMATE_QBER"
    /\ UNCHANGED <<params, prepVars, bobVars, qberResult, eveDetected, ecVars,
                   hashCalls>>

\* Sift without the return of line 163: the empty key goes on to the QBER stage
Sift_NoEarlyReturn ==
    /\ pc = "SIFT"
    /\ LET n == ArrayLength(params.numQubits)
           keyA == SiftKey(aliceBits, aliceBases, bobBases, n)
           keyB == SiftKey(bobMeasuredBits, aliceBases, bobBases, n)
       IN  /\ siftedAliceKey' = keyA
           /\ siftedBobKey' = keyB
           /\ log' = IF Len(keyA) = 0
                     THEN log \o <<"Basis Sifting completed", "No matching bases">>
                     ELSE Append(log, "Basis Sifting completed")
           /\ result' = result
           /\ pc' = "ESTIMATE_QBER"
    /\ UNCHANGED <<params, prepVars, bobVars, qberResult, eveDetected, ecVars,
                   hashCalls>>

\* lines 143-172: basis sifting, and the return when nothing is left
Sift ==
    /\ pc = "SIFT"
    /\ LET n == ArrayLength(params.numQubits)
           keyA == SiftKey(aliceBits, aliceBases, bobBases, n)
           keyB == SiftKey(bobMeasuredBits, aliceBases, bobBases, n)
       IN  /\ siftedAliceKey' = keyA
           /\ siftedBobKey' = keyB
           /\ IF Len(keyA) = 0
              THEN /\ log' = log \o <<"Basis Sifting completed", "No matching bases">>
                   /\ result' = <<MakeResult(0, <<>>, FALSE, 0, EmptyString,
                                             EmptyString)>>
                   /\ pc' = "EMPTY_SIFT"
              ELSE /\ log' = Append(log, "Basis Sifting completed")
                   /\ result' = result
                   /\ pc' = "ESTIMATE_QBER"
    /\ UNCHANGED <<params, prepVars, bobVars, qberResult, eveDetected, ecVars,
                   hashCalls>>

\* lines 175-211: the QBER sample, the detection decision and the split of
\* the sifted keys into sample and remainder
EstimateQBER ==
    /\ pc = "ESTIMATE_QBER"
    /\ LET siftedKeyLength == Len(siftedAliceKey)
           qberSampleCount == CeilSampleProduct(siftedKeyLength, params.qberSampleSize)
           qberErrors == CountMismatches(siftedAliceKey, siftedBobKey, qberSampleCount)
           qber == QberOf(qberErrors, qberSampleCount)
           qr == <<[qber |-> qber, errors |-> qberErrors,
                    sampleSize |-> qberSampleCount]>>
           note == IF params.enableEve /\ AboveHalfThreshold(qber)
                      /\ ~params.enableSecureMode
                   THEN <<"Note: QBER is higher than expected">>
                   ELSE IF ~params.enableEve /\ AboveZero(qber)
                   THEN <<"Note: Minor QBER detected">>
                   ELSE <<>>
       IN  /\ qberResult' = qr
           /\ IF params.enableSecureMode /\ AboveThreshold(qber)
              THEN /\ eveDetected' = TRUE
                   /\ log' = log \o <<"QBER Check", "ALERT: Eavesdropping detected">>
                   /\ result' = <<MakeResult(siftedKeyLength, qr, TRUE, 0,
                                             EmptyString, EmptyString)>>
                   /\ pc' = "EVE_DETECTED"
                   /\ UNCHANGED ecVars
              ELSE /\ eveDetected' = FALSE
                   /\ keyForErrorCorrectionAlice' =
                         JsSliceFrom(siftedAliceKey, qberSampleCount)
                   /\ keyForErrorCorrectionBob' =
                         JsSliceFrom(siftedBobKey, qberSampleCount)
                   /\ log' = log \o <<"QBER Check">> \o note
                                 \o <<"Key for Error Correction">>
                   /\ errorsCorrectedCount' = 0
                   /\ sharedKeyAfterEC' = JsSliceFrom(siftedBobKey, qberSampleCount)
                   /\ i' = 0
                   /\ result' = result
                   /\ pc' = "RECONCILE"
    /\ UNCHANGED <<params, prepVars, bobVars, siftVars, hashCalls>>

\* ReconcileBlock that does not advance the loop index
ReconcileBlock_NoAdvance ==
    /\ pc = "RECONCILE"
    /\ i < Len(keyForErrorCorrectionAlice)
    /\ i >= -MaxSpin
    /\ LET size == params.errorCorrectionBlockSize
           aliceBlock == JsSlice(keyForErrorCorrectionAlice, i, i + size)
           bobBlock == JsSlice(sharedKeyAfterEC, i, i + size)
           currentBlockLength == Min(size, Len(aliceBlock))
           aliceParity == XorParity(JsSlice(aliceBlock, 0, currentBlockLength))
           bobParity == XorParity(JsSlice(bobBlock, 0, currentBlockLength))
           j == FirstDiff(aliceBlock, bobBlock, currentBlockLength)
       IN  /\ IF currentBlockLength # 0 /\ aliceParity # bobParity /\ j >= 0
              THEN /\ sharedKeyAfterEC' =
                         [sharedKeyAfterEC EXCEPT ![i + j + 1] = aliceBlock[j + 1]]
                   /\ errorsCorrectedCount' = errorsCorrectedCount + 1
              ELSE UNCHANGED <<sharedKeyAfterEC, errorsCorrectedCount>>
           /\ i' = i
    /\ UNCHANGED <<params, pc, prepVars, bobVars, siftVars, qberResult,
                   eveDetected, keyForErrorCorrectionAlice,
                   keyForErrorCorrectionBob, log, result, hashCalls>>

\* lines 220-241: one iteration of the block loop
ReconcileBlock ==
    /\ pc = "RECONCILE"
    /\ i < Len(keyForErrorCorrectionAlice)
    /\ i >= -MaxSpin
    /\ LET size == params.errorCorrectionBlockSize
           aliceBlock == JsSlice(keyForErrorCorrectionAlice, i, i + size)
           bobBlock == JsSlice(sharedKeyAfterEC, i, i + size)
           currentBlockLength == Min(size, Len(aliceBlock))
           aliceParity == XorParity(JsSlice(aliceBlock, 0, currentBlockLength))
           bobParity == XorParity(JsSlice(bobBlock, 0, currentBlockLength))
           j == FirstDiff(aliceBlock, bobBlock, currentBlockLength)
       IN  /\ IF currentBlockLength # 0 /\ aliceParity # bobParity /\ j >= 0
              THEN /\ sharedKeyAfterEC' =
                         [sharedKeyAfterEC EXCEPT ![i + j + 1] = aliceBlock[j + 1]]
                   /\ errorsCorrectedCount' = errorsCorrectedCount + 1
              ELSE UNCHANGED <<sharedKeyAfterEC, errorsCorrectedCount>>
           /\ i' = i + size
    /\ UNCHANGED <<params, pc, prepVars, bobVars, siftVars, qberResult,
                   eveDetected, keyForErrorCorrectionAlice,
                   keyForErrorCorrectionBob, log, result, hashCalls>>

\* ReconcileEnd that treats a mismatch as fatal and returns without a key
ReconcileEnd_AbortOnMismatch ==
    /\ pc = "RECONCILE"
    /\ ~(i < Len(keyForErrorCorrectionAlice))
    /\ LET verdict ==
              IF KeysMatch(keyForErrorCorrectionAlice, sharedKeyAfterEC)
              THEN "Keys successfully reconciled"
              ELSE "ERROR: Keys do not perfectly match"
           preAmplifiedKeyString == sharedKeyAfterEC
       IN  IF Len(preAmplifiedKeyString) = 0
              \/ ~KeysMatch(keyForErrorCorrectionAlice, sharedKeyAfterEC)
           THEN /\ log' = log \o <<"Error Correction completed", verdict,
                                   "Cannot perform Privacy Amplification">>
                /\ result' = <<MakeResult(Len(siftedAliceKey), qberResult,
                                          eveDetected, errorsCorrectedCount,
                                          EmptyString, EmptyString)>>
                /\ pc' = "EMPTY_KEY"
           ELSE /\ log' = log \o <<"Error Correction completed", verdict>>
                /\ result' = result
                /\ pc' = "AMPLIFY"
    /\ UNCHANGED <<params, prepVars, bobVars, siftVars, qberResult, eveDetected,
                   ecVars, hashCalls>>

\* lines 242-269: the loop has ended; the two keys are compared, and the run
\* returns when there is no key to amplify
ReconcileEnd ==
    /\ pc = "RECONCILE"
    /\ ~(i < Len(keyForErrorCorrectionAlice))
    /\ LET verdict ==
              IF KeysMatch(keyForErrorCorrectionAlice, sharedKeyAfterEC)
              THEN "Keys successfully reconciled"
              ELSE "ERROR: Keys do not perfectly match"
           preAmplifiedKeyString == sharedKeyAfterEC
       IN  IF Len(preAmplifiedKeyString) = 0
           THEN /\ log' = log \o <<"Error Correction completed", verdict,
                                   "Cannot perform Privacy Amplification">>
                /\ result' = <<MakeResult(Len(siftedAliceKey), qberResult,
                                          eveDetected, errorsCorrectedCount,
                                          EmptyString, EmptyString)>>
                /\ pc' = "EMPTY_KEY"
           ELSE /\ log' = log \o <<"Error Correction completed", verdict>>
                /\ result' = result
                /\ pc' = "AMPLIFY"
    /\ UNCHANGED <<params, prepVars, bobVars, siftVars, qberResult, eveDetected,
                   ecVars, hashCalls>>

\* line 271 up to the await of line 73: sha256 is called with the reconciled
\* key and the function yields until crypto.subtle.digest settles
Sha256Call ==
    /\ pc = "AMPLIFY"
    /\ hashCalls = 0
    /\ hashCalls' = hashCalls + 1
    /\ UNCHANGED <<params, pc, prepVars, bobVars, siftVars, qberResult,
                   eveDetected, ecVars, log, result>>

\* the function is suspended at the await of line 271
AwaitingDigest == pc = "AMPLIFY" /\ hashCalls = 1

\* lines 73 and 271: crypto.subtle.digest rejects; the rejection passes through
\* both awaits and the promise of the run rejects, with no result and no
\* further log entry
Sha256Rejected ==
    /\ AwaitingDigest
    /\ pc' = "REJECTED"
    /\ UNCHANGED <<params, prepVars, bobVars, siftVars, qberResult, eveDetected,
                   ecVars, log, result, hashCalls>>

\* Amplify in which Alice's final key is the digest of her own remainder
Amplify_AliceOwnKey ==
    /\ AwaitingDigest
    /\ LET desiredHexLength == DesiredHexLength(params.privacyAmplificationLength)
           finalKeyAliceHex ==
               Substring0(Sha256Hex(keyForErrorCorrectionAlice), desiredHexLength)
           finalKeyBobHex ==
               Substring0(Sha256Hex(sharedKeyAfterEC), desiredHexLength)
       IN  /\ log' = log \o <<"Privacy Amplification completed",
                              "Final Shared Key (Alice - Hex)",
                              "Final Shared Key (Bob - Hex)">>
           /\ result' = <<MakeResult(Len(keyForErrorCorrectionAlice), qberResult,
                                     eveDetected, errorsCorrectedCount,
                                     finalKeyAliceHex, finalKeyBobHex)>>
           /\ pc' = "DONE"
    /\ UNCHANGED <<params, prepVars, bobVars, siftVars, qberResult, eveDetected,
                   ecVars, hashCalls>>

\* lines 73-77 and 271-292 after the await: the digest resolves, the function
\* resumes and cuts the hex digest of the reconciled key to the requested length
Amplify ==
    /\ AwaitingDigest
    /\ LET hash == Sha256Hex(sharedKeyAfterEC)
           desiredHexLength == DesiredHexLength(params.privacyAmplificationLength)
           finalKeyAliceHex == Substring0(hash, desiredHexLength)
           finalKeyBobHex == Substring0(hash, desiredHexLength)
       IN  /\ log' = log \o <<"Privacy Amplification completed",
                              "Final Shared Key (Alice - Hex)",
                              "Final Shared Key (Bob - Hex)">>
           /\ result' = <<MakeResult(Len(keyForErrorCorrectionAlice), qberResult,
                                     eveDetected, errorsCorrectedCount,
                                     finalKeyAliceHex, finalKeyBobHex)>>
           /\ pc' = "DONE"
    /\ UNCHANGED <<params, prepVars, bobVars, siftVars, qberResult, eveDetected,
                   ecVars, hashCalls>>

\* the stages after Bob's measurement
NextAfterMeasure ==
    \/ Sift
    \/ EstimateQBER
    \/ ReconcileBlock
    \/ ReconcileEnd
    \/ Sha256Call
    \/ Sha256Rejected
    \/ Amplify

Next ==
    \/ Prepare
    \/ EveIntercept
    \/ BobMeasure
    \/ Sift
    \/ EstimateQBER
    \/ ReconcileBlock
    \/ ReconcileEnd
    \/ Sha256Call
    \/ Sha256Rejected
    \/ Amplify

\* runs with parameters of the configuration surface
Spec == Init /\ [][Next]_vars

\* the function is one sequential pass: a stage that can run does run
FairSpec == Spec /\ WF_vars(Next)

\* runs with parameters inside and outside the configuration surface
SpecAny == InitAny /\ [][Next]_vars

----------------------------------------------------------------------------
(***************************************************************************)
(* Runs taken up after Bob's measurement (line 140), with keys long enough *)
(* for the sample arithmetic to matter.  The draws are those in which      *)
(* Alice and Bob chose the rectilinear basis throughout and Alice's bits   *)
(* alternate; with Eve enabled, Eve chose the diagonal basis at every      *)
(* index that is a multiple of stride and both her bit and Bob's came out  *)
(* flipped there.  Every such state is one the function reaches.           *)
(***************************************************************************)
ErrorStrides == {0, 1, 2, 3, 9, 10}
SiftedBlockSizes == {MaxBlock + 1}
SiftedPrivacyLengths == {128, 260}

SiftedParams ==
    [numQubits : 1..MaxSifted,
     qberSampleSize : 0..100,
     errorCorrectionBlockSize : SiftedBlockSizes,
     privacyAmplificationLength : SiftedPrivacyLengths,
     enableEve : BOOLEAN,
     enableSecureMode : BOOLEAN]

MeasuredState(p, stride) ==
    LET n == p.numQubits
        hit(k) == stride > 0 /\ k % stride = 0
        sent == [k \in 1..n |-> k % 2]
        flipped == [k \in 1..n |-> IF hit(k) THEN 1 - sent[k] ELSE sent[k]]
    IN  /\ params = p
        /\ pc = "SIFT"
        /\ aliceBits = sent
        /\ aliceBases = [k \in 1..n |-> RECTILINEAR]
        /\ transmittedBits = flipped
        /\ transmittedBases =
              [k \in 1..n |-> IF hit(k) THEN DIAGONAL ELSE RECTILINEAR]
        /\ bobBases = [k \in 1..n |-> RECTILINEAR]
        /\ bobMeasuredBits = flipped
        /\ siftedAliceKey = <<>> /\ siftedBobKey = <<>>
        /\ qberResult = <<>>
        /\ eveDetected = FALSE
        /\ keyForErrorCorrectionAlice = <<>> /\ keyForErrorCorrectionBob = <<>>
        /\ sharedKeyAfterEC = <<>>
        /\ errorsCorrectedCount = 0
        /\ i = 0
        /\ log = <<"Starting BB84 Simulation...", "Parameters:",
                   "Alice prepared qubits">>
                 \o (IF p.enableEve THEN <<"Eve is enabled", "Eve intercepted">>
                     ELSE <<>>)
                 \o <<"Bob measured qubits">>
        /\ result = <<>>
        /\ hashCalls = 0

InitMeasured ==
    \E p \in SiftedParams, stride \in ErrorStrides :
        /\ p.enableEve \/ stride = 0
        /\ MeasuredState(p, stride)

SpecMeasured == InitMeasured /\ [][NextAfterMeasure]_vars

----------------------------------------------------------------------------
\* Properties.

Returned == result # <<>>
Terminal == {"EMPTY_SIFT", "EVE_DETECTED", "EMPTY_KEY", "DONE"}
LogEntries == {log[k] : k \in 1..Len(log)}

\* C1: in secure mode, a sampled QBER (errors / sampleCount) strictly above
\* 0.11 ends the run at once: the result reports eveDetected, empty final
\* keys and zero corrected errors, and neither reconciliation nor privacy
\* amplification is entered.
C1_SecureModeAbort ==
    (/\ params.enableSecureMode
     /\ qberResult # <<>>
     /\ qberResult[1].errors * QBER_THRESHOLD_DEN
           > QBER_THRESHOLD_NUM * qberResult[1].sampleSize)
    => /\ pc = "EVE_DETECTED"
       /\ Returned
       /\ result[1].eveDetected = TRUE
       /\ result[1].finalKeyAlice = EmptyString
       /\ result[1].finalKeyBob = EmptyString
       /\ result[1].errorsCorrected = 0
       /\ result[1].qberResult = qberResult
       /\ sharedKeyAfterEC = <<>> /\ i = 0 /\ errorsCorrectedCount = 0
       /\ hashCalls = 0
       /\ LogEntries \cap {"Key for Error Correction", "Error Correction completed",
                           "Privacy Amplification completed"} = {}

\* a detected run whose QBER is between 0.11 and 0.12
C1_Witness ==
    /\ pc = "EVE_DETECTED"
    /\ params.enableSecureMode
    /\ qberResult[1].errors * 100 > 11 * qberResult[1].sampleSize
    /\ qberResult[1].errors * 100 < 12 * qberResult[1].sampleSize

\* C2: without Eve, Bob's measured bit equals Alice's bit at every index
\* where their bases agree, so the two sifted keys are equal element by
\* element.
C2_NoEveSiftedKeysEqual ==
    ~params.enableEve =>
       /\ pc \notin {"PREPARE", "MEASURE"} =>
             /\ Len(bobMeasuredBits) = params.numQubits
             /\ \A k \in 1..params.numQubits :
                   aliceBases[k] = bobBases[k] => bobMeasuredBits[k] = aliceBits[k]
       /\ pc \notin {"PREPARE", "MEASURE", "SIFT"} =>
             siftedBobKey = siftedAliceKey

\* a run without Eve with one agreeing index, and one disagreeing index where
\* Bob's random bit came out different from Alice's
C2_Witness ==
    /\ ~params.enableEve
    /\ pc = "ESTIMATE_QBER"
    /\ Len(siftedBobKey) = 1
    /\ \E k \in 1..params.numQubits :
          aliceBases[k] # bobBases[k] /\ bobMeasuredBits[k] # aliceBits[k]

\* C3: without Eve the QBER stage finds no error (errors = 0, qber = 0) and
\* reconciliation corrects nothing, whatever the sample percentage and the
\* block size.
C3_NoEveNoErrors ==
    ~params.enableEve =>
       /\ qberResult # <<>> =>
             /\ qberResult[1].errors = 0
             /\ qberResult[1].qber.num = 0
       /\ errorsCorrectedCount = 0
       /\ Returned => result[1].errorsCorrected = 0

\* a completed run without Eve that sampled one bit and reconciled another
C3_Witness ==
    /\ ~params.enableEve
    /\ pc = "DONE"
    /\ qberResult[1].sampleSize = 1
    /\ Len(keyForErrorCorrectionAlice) = 1
    /\ Returned

\* stages at which the sifting loop has not yet run
BeforeSift == {"PREPARE", "EVE", "MEASURE", "SIFT"}

\* indices (1-based) at which Alice's and Bob's bases agree
MatchingIndices ==
    {k \in 1..ArrayLength(params.numQubits) : aliceBases[k] = bobBases[k]}

\* C4: for qberSampleSize in 0..100 the sample count is
\* ceil(siftedKeyLength * qberSampleSize / 100) and lies in 0..siftedKeyLength;
\* errors counts the mismatches among exactly the first sampleCount positions
\* (so errors <= sampleCount, and qber = 0 when sampleCount = 0); and the keys
\* handed to reconciliation are the sifted keys from index sampleCount on, of
\* length siftedKeyLength - sampleCount.
C4_SampleIsExactCeiling ==
    (/\ qberResult # <<>>
     /\ params.qberSampleSize \in 0..100)
    => LET len == Len(siftedAliceKey)
           count == qberResult[1].sampleSize
       IN  /\ count = ExactCeilPercent(len, params.qberSampleSize)
           /\ count \in 0..len
           /\ qberResult[1].errors =
                 Cardinality({k \in 1..count : siftedAliceKey[k] # siftedBobKey[k]})
           /\ qberResult[1].errors <= count
           /\ count = 0 => qberResult[1].qber.num = 0
           /\ pc \in {"RECONCILE", "AMPLIFY", "EMPTY_KEY", "DONE"} =>
                 /\ keyForErrorCorrectionAlice = SubSeq(siftedAliceKey, count + 1, len)
                 /\ keyForErrorCorrectionBob = SubSeq(siftedBobKey, count + 1, len)
                 /\ Len(keyForErrorCorrectionAlice) = len - count

\* C5: after sifting, with or without Eve, the two sifted keys have the same
\* length, the number of indices where Alice's basis equals Bob's (Eve's
\* bases play no part), at most numQubits; and their k-th entries are Alice's
\* bit and Bob's measured bit at the k-th such index.
C5_SiftedKeysFollowMatchingBases ==
    pc \notin BeforeSift =>
       LET rank(m) == Cardinality({x \in MatchingIndices : x <= m})
       IN  /\ Len(siftedAliceKey) = Cardinality(MatchingIndices)
           /\ Len(siftedBobKey) = Cardinality(MatchingIndices)
           /\ Len(siftedAliceKey) <= params.numQubits
           /\ \A m \in MatchingIndices :
                 /\ siftedAliceKey[rank(m)] = aliceBits[m]
                 /\ siftedBobKey[rank(m)] = bobMeasuredBits[m]

\* a sifted run with Eve in which Alice and Bob agree at both indices, Eve's
\* basis differs from theirs at one of them, and the two sifted keys differ
C5_Witness ==
    /\ pc \notin BeforeSift
    /\ params.enableEve
    /\ Len(siftedAliceKey) = 2
    /\ siftedAliceKey[1] # siftedAliceKey[2]
    /\ siftedAliceKey # siftedBobKey
    /\ \E k \in 1..2 : transmittedBases[k] # aliceBases[k]

\* C6: when no index has matching bases the run returns right after sifting
\* with siftedKeyLength = 0, no qberResult, eveDetected = false,
\* errorsCorrected = 0 and empty final keys; the log ends with the
\* 'No matching bases' entry, no later stage logs anything and the hash is
\* never called.
C6_EmptySiftReturns ==
    /\ (pc \notin BeforeSift /\ MatchingIndices = {}) =>
          /\ pc = "EMPTY_SIFT"
          /\ result = <<[initialQubits |-> params.numQubits,
                         siftedKeyLength |-> 0,
                         qberResult |-> <<>>,
                         eveDetected |-> FALSE,
                         errorsCorrected |-> 0,
                         finalKeyAlice |-> EmptyString,
                         finalKeyBob |-> EmptyString]>>
          /\ log[Len(log)] = "No matching bases"
          /\ LogEntries \cap {"QBER Check", "Key for Error Correction",
                              "Error Correction completed",
                              "Cannot perform Privacy Amplification",
                              "Privacy Amplification completed"} = {}
          /\ qberResult = <<>>
          /\ hashCalls = 0
    /\ pc = "EMPTY_SIFT" => MatchingIndices = {}

\* a two-qubit run with Eve that ended with nothing sifted
C6_Witness ==
    /\ pc = "EMPTY_SIFT"
    /\ params.numQubits = 2
    /\ params.enableEve
    /\ Returned

\* Bob's key still differs from Alice's remainder
Mismatched == ~KeysMatch(keyForErrorCorrectionAlice, sharedKeyAfterEC)

\* C7: in every returned result, on every exit path, finalKeyAlice equals
\* finalKeyBob; on the completed path both are the same truncation of the
\* one digest of Bob's reconciled key.
C7_FinalKeysEqual ==
    Returned =>
       /\ result[1].finalKeyAlice = result[1].finalKeyBob
       /\ pc = "DONE" =>
             /\ result[1].finalKeyBob.digestOf = sharedKeyAfterEC
             /\ result[1].finalKeyAlice.digestOf = sharedKeyAfterEC
             /\ hashCalls = 1

\* a completed run whose reconciled keys match after one correction
C7_Witness ==
    /\ pc = "DONE"
    /\ Returned
    /\ ~Mismatched
    /\ result[1].errorsCorrected = 1
    /\ result[1].finalKeyAlice # EmptyString

\* C8 as stated: a mismatch left by reconciliation is logged, the run goes on
\* to privacy amplification with Bob's key, and the final keys of such a run
\* differ.
C8_MismatchedRunKeysDiffer ==
    (pc = "DONE" /\ Mismatched) =>
       /\ "ERROR: Keys do not perfectly match" \in LogEntries
       /\ result[1].finalKeyBob.digestOf = sharedKeyAfterEC
       /\ result[1].finalKeyAlice # result[1].finalKeyBob

\* C8 amended: a mismatch left by reconciliation is logged and does not end
\* the run; it goes on to privacy amplification, where both final keys are
\* cut from the digest of Bob's (still mismatched) key, so they are equal
\* even then and neither is derived from Alice's remainder.
C8_MismatchedRunKeysFromBob ==
    (pc \in {"AMPLIFY"} \cup Terminal /\ Mismatched) =>
       /\ "ERROR: Keys do not perfectly match" \in LogEntries
       /\ "Keys successfully reconciled" \notin LogEntries
       /\ pc \in {"AMPLIFY", "DONE"}
       /\ Returned =>
             /\ result[1].finalKeyBob.digestOf = sharedKeyAfterEC
             /\ result[1].finalKeyBob.digestOf # keyForErrorCorrectionAlice
             /\ result[1].finalKeyBob.hexLen > 0
             /\ result[1].finalKeyAlice = result[1].finalKeyBob

\* a completed run in which one block held two errors, nothing was corrected
\* and the same cut of the digest was returned to both parties
C8_Witness ==
    /\ pc = "DONE"
    /\ Mismatched
    /\ errorsCorrectedCount = 0
    /\ result[1].finalKeyBob.hexLen =
          DesiredHexLength(params.privacyAmplificationLength)
    /\ result[1].finalKeyAlice = result[1].finalKeyBob

\* the stages a stage can hand over to
StageSuccessors(stage) ==
    CASE stage = "PREPARE" -> {"EVE", "MEASURE"}
      [] stage = "EVE" -> {"MEASURE"}
      [] stage = "MEASURE" -> {"SIFT"}
      [] stage = "SIFT" -> {"EMPTY_SIFT", "ESTIMATE_QBER"}
      [] stage = "ESTIMATE_QBER" -> {"EVE_DETECTED", "RECONCILE"}
      [] stage = "RECONCILE" -> {"RECONCILE", "EMPTY_KEY", "AMPLIFY"}
      [] stage = "AMPLIFY" -> {"AMPLIFY", "DONE"}
      [] OTHER -> {}

IsPrefix(a, b) == Len(a) <= Len(b) /\ SubSeq(b, 1, Len(a)) = a

\* C9 as stated: with well-formed parameters a run goes through PREPARE,
\* (EVE), MEASURE, SIFT, ESTIMATE_QBER, RECONCILE, AMPLIFY in that order and
\* never back, and eventually ends, without raising, in exactly one of
\* EMPTY_SIFT, EVE_DETECTED, EMPTY_KEY and DONE with a result; the log only
\* grows by appends, and in the three early outcomes both final keys are empty.
C9_StagesInOrderUntilOneOutcome ==
    /\ [][pc' \in StageSuccessors(pc)]_vars
    /\ [][IsPrefix(log, log')]_vars
    /\ []("Eve intercepted" \in LogEntries
             <=> (params.enableEve /\ pc \notin {"PREPARE", "EVE"}))
    /\ [](Returned <=> pc \in Terminal)
    /\ [](pc \in {"EMPTY_SIFT", "EVE_DETECTED", "EMPTY_KEY"} =>
             /\ result[1].finalKeyAlice = EmptyString
             /\ result[1].finalKeyBob = EmptyString)
    /\ [](pc # "REJECTED")
    /\ <>(pc \in Terminal)

\* C9 amended: with well-formed parameters a run goes through the stages in
\* that order and never back, and eventually either ends in exactly one of
\* EMPTY_SIFT, EVE_DETECTED, EMPTY_KEY and DONE with a result, or raises the
\* digest failure to the caller. It raises only from AMPLIFY, after sha256 was
\* called, with no result and nothing appended to the log; the log only grows
\* by appends, and in the three early outcomes both final keys are empty.
C9_StagesInOrderUntilOutcomeOrDigestFailure ==
    /\ [][\/ pc' \in StageSuccessors(pc)
          \/ (AwaitingDigest /\ pc' = "REJECTED" /\ log' = log)]_vars
    /\ [][IsPrefix(log, log')]_vars
    /\ []("Eve intercepted" \in LogEntries
             <=> (params.enableEve /\ pc \notin {"PREPARE", "EVE"}))
    /\ [](Returned <=> pc \in Terminal)
    /\ [](pc \in {"EMPTY_SIFT", "EVE_DETECTED", "EMPTY_KEY"} =>
             /\ result[1].finalKeyAlice = EmptyString
             /\ result[1].finalKeyBob = EmptyString)
    /\ [](pc = "REJECTED" =>
             /\ hashCalls = 1
             /\ Len(sharedKeyAfterEC) > 0
             /\ "Privacy Amplification completed" \notin LogEntries)
    /\ [](hashCalls = 1 <=> (AwaitingDigest \/ pc \in {"DONE", "REJECTED"}))
    /\ <>(pc \in Terminal \/ pc = "REJECTED")

\* a run with Eve that corrected an error in reconciliation, called the digest
\* and was rejected
C9_Witness ==
    /\ pc = "REJECTED"
    /\ params.enableEve
    /\ errorsCorrectedCount >= 1
    /\ hashCalls = 1
    /\ result = <<>>
    /\ "Error Correction completed" \in LogEntries

\* C10: a call with malformed parameters fails fast: no bit or basis sequence
\* is constructed and no later stage is entered.
C10_MalformedFailsFast ==
    ~WellFormed(params) =>
       /\ pc = "PREPARE"
       /\ aliceBits = <<>> /\ aliceBases = <<>>
       /\ bobBases = <<>> /\ bobMeasuredBits = <<>>

\* C11 as stated: on every completed run each final key is the digest cut to
\* exactly ceil(privacyAmplificationLength / 4) hex characters, for every
\* privacyAmplificationLength > 0.
C11_KeyHasRequestedLength ==
    (pc = "DONE" /\ params.privacyAmplificationLength > 0) =>
       /\ result[1].finalKeyAlice.digestOf = sharedKeyAfterEC
       /\ result[1].finalKeyBob.digestOf = sharedKeyAfterEC
       /\ result[1].finalKeyAlice.hexLen =
             DesiredHexLength(params.privacyAmplificationLength)
       /\ result[1].finalKeyBob.hexLen =
             DesiredHexLength(params.privacyAmplificationLength)

\* C11 amended: on every completed run each final key is the digest cut to
\* min(ceil(privacyAmplificationLength / 4), 64) hex characters: exactly
\* ceil(privacyAmplificationLength / 4) up to 256 bits, the whole digest of
\* 64 characters above.
C11_KeyLengthCappedByDigest ==
    (pc = "DONE" /\ params.privacyAmplificationLength > 0) =>
       LET want == -((-params.privacyAmplificationLength) \div 4)
           have == IF want <= SHA256_HEX_LENGTH THEN want ELSE SHA256_HEX_LENGTH
       IN  /\ result[1].finalKeyAlice.digestOf = sharedKeyAfterEC
           /\ result[1].finalKeyBob.digestOf = sharedKeyAfterEC
           /\ result[1].finalKeyAlice.hexLen = have
           /\ result[1].finalKeyBob.hexLen = have
           /\ Len(sharedKeyAfterEC) > 0

\* a completed run that asked for more bits than the digest has
C11_Witness ==
    /\ pc = "DONE"
    /\ params.privacyAmplificationLength > 4 * SHA256_HEX_LENGTH
    /\ result[1].finalKeyAlice.hexLen = SHA256_HEX_LENGTH
    /\ Len(result[1].finalKeyAlice.digestOf) > 1

\* Reconciliation blocks, for the properties below: block b (from 0) holds the
\* positions b * size + 1 .. min((b + 1) * size, len) of the post-sample keys.
AfterReconcileLoop ==
    pc \in {"AMPLIFY", "EMPTY_KEY", "DONE", "REJECTED"} /\ qberResult # <<>>
InReconciliation == pc = "RECONCILE" \/ AfterReconcileLoop
BlockCount ==
    -((-Len(keyForErrorCorrectionAlice)) \div params.errorCorrectionBlockSize)
BlockPositions(b) ==
    {k \in 1..Len(keyForErrorCorrectionAlice) :
        (k - 1) \div params.errorCorrectionBlockSize = b}
BlockProcessed(b) ==
    AfterReconcileLoop \/ b * params.errorCorrectionBlockSize < i
OnesIn(key, positions) == Cardinality({k \in positions : key[k] = ONE})
ParityDiffers(b) ==
    OnesIn(keyForErrorCorrectionAlice, BlockPositions(b)) % 2
       # OnesIn(keyForErrorCorrectionBob, BlockPositions(b)) % 2
MismatchesBefore(b) ==
    {k \in BlockPositions(b) :
        keyForErrorCorrectionBob[k] # keyForErrorCorrectionAlice[k]}
MismatchesAfter(b) ==
    {k \in BlockPositions(b) :
        sharedKeyAfterEC[k] # keyForErrorCorrectionAlice[k]}

\* C12: reconciliation cuts the post-sample keys into contiguous blocks of
\* errorCorrectionBlockSize (the last possibly shorter); a processed block
\* whose parities agree keeps Bob's bits, one whose parities differ has Bob's
\* bit set to Alice's at exactly its leftmost differing position and counts
\* one correction. The corrected key keeps the length of Alice's remainder,
\* every other bit is Bob's own, and errorsCorrected is the number of
\* processed blocks with differing parity, at most
\* ceil(preECKeyLength / errorCorrectionBlockSize).
C12_BlockwiseFirstDifferenceFix ==
    InReconciliation =>
       /\ Len(sharedKeyAfterEC) = Len(keyForErrorCorrectionAlice)
       /\ Len(keyForErrorCorrectionBob) = Len(keyForErrorCorrectionAlice)
       /\ UNION {BlockPositions(b) : b \in 0..(BlockCount - 1)}
             = 1..Len(keyForErrorCorrectionAlice)
       /\ \A b \in 0..(BlockCount - 1) :
             /\ BlockPositions(b) # {}
             /\ Cardinality(BlockPositions(b)) <= params.errorCorrectionBlockSize
             /\ (b < BlockCount - 1 =>
                   Cardinality(BlockPositions(b)) = params.errorCorrectionBlockSize)
             /\ IF BlockProcessed(b) /\ ParityDiffers(b)
                THEN /\ MismatchesBefore(b) # {}
                     /\ LET first == CHOOSE k \in MismatchesBefore(b) :
                                        \A g \in MismatchesBefore(b) : k <= g
                        IN  /\ sharedKeyAfterEC[first] = keyForErrorCorrectionAlice[first]
                            /\ \A k \in BlockPositions(b) \ {first} :
                                  sharedKeyAfterEC[k] = keyForErrorCorrectionBob[k]
                ELSE \A k \in BlockPositions(b) :
                        sharedKeyAfterEC[k] = keyForErrorCorrectionBob[k]
       /\ errorsCorrectedCount =
             Cardinality({b \in 0..(BlockCount - 1) :
                             BlockProcessed(b) /\ ParityDiffers(b)})
       /\ errorsCorrectedCount <= BlockCount
       /\ (Returned /\ AfterReconcileLoop =>
             result[1].errorsCorrected = errorsCorrectedCount)

\* a completed run with a short last block, a corrected block holding three
\* mismatches and a block left alone with two
C12_Witness ==
    /\ pc = "DONE"
    /\ Len(keyForErrorCorrectionAlice) % params.errorCorrectionBlockSize # 0
    /\ result[1].errorsCorrected >= 2
    /\ \E b \in 0..(BlockCount - 1) :
          ParityDiffers(b) /\ Cardinality(MismatchesBefore(b)) >= 3
    /\ \E b \in 0..(BlockCount - 1) :
          ~ParityDiffers(b) /\ Cardinality(MismatchesBefore(b)) = 2

\* C13: with Eve enabled, once she has intercepted, what is transmitted
\* carries Alice's bit at every index where its (Eve's) basis is Alice's, and
\* Bob measures that transmitted sequence: his bit is the transmitted bit
\* wherever his basis is the transmitted basis. Alice's own bits and bases are
\* never written after preparation and are the ones sifting compares with
\* Bob's. With Eve disabled the transmitted bits and bases are Alice's.
C13_EveModel ==
    /\ [](pc \notin {"PREPARE", "EVE"} =>
            IF params.enableEve
            THEN \A k \in 1..ArrayLength(params.numQubits) :
                    transmittedBases[k] = aliceBases[k] =>
                       transmittedBits[k] = aliceBits[k]
            ELSE transmittedBits = aliceBits /\ transmittedBases = aliceBases)
    /\ [](pc \notin {"PREPARE", "EVE", "MEASURE"} =>
            \A k \in 1..ArrayLength(params.numQubits) :
               bobBases[k] = transmittedBases[k] =>
                  bobMeasuredBits[k] = transmittedBits[k])
    /\ [](pc \notin BeforeSift =>
            /\ Len(siftedAliceKey) = Cardinality(MatchingIndices)
            /\ siftedAliceKey =
                  SiftKey(aliceBits, aliceBases, bobBases,
                          ArrayLength(params.numQubits)))
    /\ [][pc # "PREPARE" => UNCHANGED <<aliceBits, aliceBases>>]_vars

\* Bob has measured a sequence Eve changed: at one index her basis and bit
\* differ from Alice's and Bob, in Eve's basis, read Eve's bit; at another her
\* basis is Alice's
C13_Witness ==
    /\ params.enableEve
    /\ pc = "SIFT"
    /\ \E k \in 1..ArrayLength(params.numQubits) :
          /\ transmittedBases[k] # aliceBases[k]
          /\ transmittedBits[k] # aliceBits[k]
          /\ bobBases[k] = transmittedBases[k]
          /\ bobMeasuredBits[k] = transmittedBits[k]
    /\ \E k \in 1..ArrayLength(params.numQubits) :
          /\ transmittedBases[k] = aliceBases[k]
          /\ transmittedBits[k] = aliceBits[k]

\* C14: a returned result reports eveDetected only when Eve was enabled,
\* secure mode was on and the sampled QBER was strictly above 0.11; so with
\* Eve disabled no run ends in EVE_DETECTED and the log never holds the
\* "Minor QBER detected" note.
C14_NoFalsePositive ==
    /\ (Returned /\ result[1].eveDetected) =>
          /\ params.enableEve
          /\ params.enableSecureMode
          /\ result[1].qberResult # <<>>
          /\ result[1].qberResult[1].errors * QBER_THRESHOLD_DEN
                > QBER_THRESHOLD_NUM * result[1].qberResult[1].sampleSize
    /\ eveDetected => (Returned /\ result[1].eveDetected)
    /\ ~params.enableEve =>
          /\ pc # "EVE_DETECTED"
          /\ ~eveDetected
          /\ "ALERT: Eavesdropping detected" \notin LogEntries
          /\ "Note: Minor QBER detected" \notin LogEntries

\* a result that reports Eve, returned with Eve enabled in secure mode after
\* Bob measured a bit she had changed
C14_Witness ==
    /\ Returned
    /\ result[1].eveDetected
    /\ params.enableEve
    /\ params.enableSecureMode
    /\ result[1].qberResult[1].errors >= 1
    /\ "ALERT: Eavesdropping detected" \in LogEntries

\* the residue the claim gives for a block that started with k mismatches
EvenResidue(k) == IF k % 2 = 0 THEN k ELSE k - 1

\* C15: reconciliation never introduces an error and leaves an even residue:
\* a processed block that started with k mismatches ends with k of them when
\* k is even and k - 1 when k is odd, all at positions that were mismatched
\* before. So the log holds "Keys successfully reconciled" exactly when every
\* block started with at most one mismatch, and "ERROR: Keys do not perfectly
\* match" exactly when some block started with two or more.
C15_EvenResidue ==
    /\ InReconciliation =>
          \A b \in 0..(BlockCount - 1) :
             /\ MismatchesAfter(b) \subseteq MismatchesBefore(b)
             /\ Cardinality(MismatchesAfter(b)) =
                   IF BlockProcessed(b)
                   THEN EvenResidue(Cardinality(MismatchesBefore(b)))
                   ELSE Cardinality(MismatchesBefore(b))
    /\ AfterReconcileLoop =>
          /\ "Keys successfully reconciled" \in LogEntries
                <=> \A b \in 0..(BlockCount - 1) :
                       Cardinality(MismatchesBefore(b)) <= 1
          /\ "ERROR: Keys do not perfectly match" \in LogEntries
                <=> \E b \in 0..(BlockCount - 1) :
                       Cardinality(MismatchesBefore(b)) >= 2
          /\ "Keys successfully reconciled" \in LogEntries
                <=> sharedKeyAfterEC = keyForErrorCorrectionAlice
    /\ (pc = "RECONCILE" \/ qberResult = <<>>) =>
          LogEntries \cap {"Keys successfully reconciled",
                           "ERROR: Keys do not perfectly match"} = {}

\* a run whose log reports the mismatch: one block went from three
\* mismatches to two, another kept its two
C15_Witness ==
    /\ AfterReconcileLoop
    /\ "ERROR: Keys do not perfectly match" \in LogEntries
    /\ \E b \in 0..(BlockCount - 1) :
          /\ Cardinality(MismatchesBefore(b)) = 3
          /\ Cardinality(MismatchesAfter(b)) = 2
    /\ \E b \in 0..(BlockCount - 1) :
          /\ Cardinality(MismatchesBefore(b)) = 2
          /\ Cardinality(MismatchesAfter(b)) = 2

====
